---- MODULE Spec2Model ----
(***************************************************************************)
(* Model of src/data/zip_to_sqllite.py: the loader that walks the zip      *)
(* archives of data_zip/, parses the comma separated price lines of every  *)
(* .txt entry and inserts them, in batches, into one SQLite table per      *)
(* instrument/timeframe.                                                    *)
(*                                                                         *)
(* Text is a sequence of one-character strings.  A float is a decimal      *)
(* [k, m, e] standing for m * 10^e (k = "fin"), an infinity (k = "inf",    *)
(* m = +1 or -1) or a NaN (k = "nan"); decimals of at most nine            *)
(* significant digits in the normal range map one-to-one to IEEE doubles,  *)
(* so the rounding of float() is not modelled.  A Python int is the same   *)
(* decimal with e >= 0.                                                     *)
(***************************************************************************)
EXTENDS Integers, Sequences, FiniteSets, TLC

-----------------------------------------------------------------------------
(* Text primitives of Python used by the loader.                           *)

\* the characters of the model in code point order (str comparison in sorted())
Alphabet ==
    << "\t", " ", "#", "+", "-", ".", "/",
       "0", "1", "2", "3", "4", "5", "6", "7", "8", "9", ":",
       "B", "E", "G", "H", "M", "T", "U", "_",
       "a", "b", "c", "d", "e", "f", "i", "m", "n", "p", "r", "t", "v", "x", "y", "z" >>

ord(c) == CHOOSE i \in 1..Len(Alphabet) : Alphabet[i] = c

Digits == << "0", "1", "2", "3", "4", "5", "6", "7", "8", "9" >>

IsDigit(c) == \E i \in 1..Len(Digits) : Digits[i] = c

DigitVal(c) == (CHOOSE i \in 1..Len(Digits) : Digits[i] = c) - 1

IsSpace(c) == c \in {" ", "\t"}

RECURSIVE lstrip(_)
lstrip(s) == IF s # <<>> /\ IsSpace(Head(s)) THEN lstrip(Tail(s)) ELSE s

RECURSIVE rstrip(_)
rstrip(s) ==
    IF s # <<>> /\ IsSpace(s[Len(s)]) THEN rstrip(SubSeq(s, 1, Len(s) - 1)) ELSE s

\* str.strip()
strip(s) == rstrip(lstrip(s))

\* str.replace(c, '') for a one-character c
replace(s, c) == SelectSeq(s, LAMBDA x : x # c)

\* sub in s
contains(s, sub) ==
    \E i \in 1..(Len(s) - Len(sub) + 1) : SubSeq(s, i, i + Len(sub) - 1) = sub

\* str.endswith(suffix)
endswith(s, suffix) ==
    /\ Len(s) >= Len(suffix)
    /\ SubSeq(s, Len(s) - Len(suffix) + 1, Len(s)) = suffix

\* str.split(sep) for a one-character sep
RECURSIVE split(_, _)
split(s, sep) ==
    IF \A i \in 1..Len(s) : s[i] # sep
    THEN << s >>
    ELSE LET i == CHOOSE k \in 1..Len(s) :
                      s[k] = sep /\ \A j \in 1..(k - 1) : s[j] # sep
         IN  << SubSeq(s, 1, i - 1) >> \o split(SubSeq(s, i + 1, Len(s)), sep)

\* os.path.basename
basename(path) == LET parts == split(path, "/") IN parts[Len(parts)]

\* one row of csv.reader(content, delimiter=','): an empty line is the empty
\* row; the model's alphabet has no quote character
csv_row(line) == IF line = <<>> THEN <<>> ELSE split(line, ",")

\* s < t for str
RECURSIVE str_lt(_, _)
str_lt(s, t) ==
    IF t = <<>> THEN FALSE
    ELSE IF s = <<>> THEN TRUE
    ELSE IF Head(s) # Head(t) THEN ord(Head(s)) < ord(Head(t))
    ELSE str_lt(Tail(s), Tail(t))

-----------------------------------------------------------------------------
(* float() and int().                                                      *)

RECURSIVE Pow10(_)
Pow10(n) == IF n = 0 THEN 1 ELSE 10 * Pow10(n - 1)

RECURSIVE NumDigits(_)
NumDigits(n) == IF n < 10 THEN 1 ELSE 1 + NumDigits(n \div 10)

Abs(n) == IF n < 0 THEN 0 - n ELSE n

Sign(n) == IF n < 0 THEN 0 - 1 ELSE 1

RECURSIVE ToNat(_)
ToNat(ds) ==
    IF ds = <<>> THEN 0
    ELSE ToNat(SubSeq(ds, 1, Len(ds) - 1)) * 10 + DigitVal(ds[Len(ds)])

AllDigits(s) == \A i \in 1..Len(s) : IsDigit(s[i])

Fin(m, e) == [k |-> "fin", m |-> m, e |-> e]

Inf(sgn) == [k |-> "inf", m |-> sgn, e |-> 0]

NaN == [k |-> "nan", m |-> 0, e |-> 0]

\* the decimal m * 10^e without trailing zeros in m
RECURSIVE Norm(_, _)
Norm(m, e) ==
    IF m = 0 THEN Fin(0, 0)
    ELSE IF m % 10 = 0 THEN Norm(m \div 10, e + 1)
    ELSE Fin(m, e)

\* the nine leading digits of |m| and the exponent of its first digit
Lead9(m) == Abs(m) * Pow10(9 - NumDigits(Abs(m)))

AdjExp(v) == v.e + NumDigits(Abs(v.m)) - 1

\* the double nearest to m * 10^e: beyond DBL_MAX = 1.7976931348623157e308 it
\* is an infinity, below the smallest subnormal 4.94e-324 it is zero
ToDouble(m, e) ==
    LET v == Norm(m, e)
    IN  IF v.m = 0 THEN v
        ELSE IF AdjExp(v) > 308 \/ (AdjExp(v) = 308 /\ Lead9(v.m) > 179769313)
        THEN Inf(Sign(v.m))
        ELSE IF AdjExp(v) < 0 - 324 THEN Fin(0, 0)
        ELSE v

\* the part of a float literal before the exponent: digits [. digits], at
\* least one digit
MantissaOk(s) ==
    LET parts == split(s, ".")
    IN  /\ Len(parts) <= 2
        /\ \A i \in 1..Len(parts) : AllDigits(parts[i])
        /\ \E i \in 1..Len(parts) : parts[i] # <<>>

MantissaDigits(s) == replace(s, ".")

FracLen(s) == LET parts == split(s, ".") IN IF Len(parts) = 2 THEN Len(parts[2]) ELSE 0

\* the exponent of a float literal: [sign] digits
ExponentOk(s) ==
    LET body == IF s # <<>> /\ Head(s) \in {"+", "-"} THEN Tail(s) ELSE s
    IN  body # <<>> /\ AllDigits(body)

ExponentVal(s) ==
    IF Head(s) = "-" THEN 0 - ToNat(Tail(s))
    ELSE IF Head(s) = "+" THEN ToNat(Tail(s))
    ELSE ToNat(s)

\* float(s): [ok |-> FALSE] stands for ValueError
float(s) ==
    LET t    == strip(s)
        neg  == t # <<>> /\ Head(t) = "-"
        body == IF t # <<>> /\ Head(t) \in {"+", "-"} THEN Tail(t) ELSE t
        sgn  == IF neg THEN 0 - 1 ELSE 1
        ps   == split(body, "e")
    IN  IF body \in {<< "i", "n", "f" >>, << "i", "n", "f", "i", "n", "i", "t", "y" >>}
        THEN [ok |-> TRUE, v |-> Inf(sgn)]
        ELSE IF body = << "n", "a", "n" >> THEN [ok |-> TRUE, v |-> NaN]
        ELSE IF Len(ps) = 1 /\ MantissaOk(ps[1])
        THEN [ok |-> TRUE,
              v  |-> ToDouble(sgn * ToNat(MantissaDigits(ps[1])), 0 - FracLen(ps[1]))]
        ELSE IF Len(ps) = 2 /\ MantissaOk(ps[1]) /\ ExponentOk(ps[2])
        THEN [ok |-> TRUE,
              v  |-> ToDouble(sgn * ToNat(MantissaDigits(ps[1])),
                              ExponentVal(ps[2]) - FracLen(ps[1]))]
        ELSE [ok |-> FALSE, v |-> NaN]

\* int(x) of a float x: truncation towards zero; a NaN is a ValueError and an
\* infinity an OverflowError
int(x) ==
    IF x.k = "nan" THEN [err |-> "ValueError", v |-> Fin(0, 0)]
    ELSE IF x.k = "inf" THEN [err |-> "OverflowError", v |-> Fin(0, 0)]
    ELSE IF x.e >= 0 THEN [err |-> "none", v |-> x]
    ELSE IF 0 - x.e > 9 THEN [err |-> "none", v |-> Fin(0, 0)]
    ELSE [err |-> "none",
          v   |-> Norm(Sign(x.m) * (Abs(x.m) \div Pow10(0 - x.e)), 0)]

-----------------------------------------------------------------------------
(* The store: forex_data.db as SQLite keeps it.                            *)

NULL == [k |-> "null", m |-> 0, e |-> 0]

EmptyTables == [t \in {} |-> <<>>]

\* no file at DB_FILE
NoDb == [exists |-> FALSE, tables |-> EmptyTables]

\* a faulty init_db that opens the file of the earlier run instead of removing it
init_db_keep(old) == [exists |-> TRUE, tables |-> old.tables]

\* os.path.exists / os.remove / sqlite3.connect: the file of an earlier run is
\* removed and a new, empty database is opened
init_db(old) == [exists |-> TRUE, tables |-> EmptyTables]

\* what init_db prints
init_db_out(old) == IF old.exists THEN << << "Removed existing forex_data.db" >> >> ELSE <<>>

\* the table a name put into the SQL text stands for: the white space around
\* it is no part of it.  (SQLite also compares table names without regard to
\* case; the entries of the model have no two names that differ by case only.)
sql_name(name) == strip(name)

\* the name is an identifier SQLite takes unquoted: letters, digits and '_',
\* not starting with a digit; any other name raises sqlite3.OperationalError
Letters ==
    { "B", "E", "G", "H", "M", "T", "U",
      "a", "b", "c", "d", "e", "f", "i", "m", "n", "p", "r", "t", "v", "x", "y", "z" }

sql_identifier(name) ==
    /\ name # <<>>
    /\ ~IsDigit(name[1])
    /\ \A k \in 1..Len(name) : name[k] \in Letters \/ IsDigit(name[k]) \/ name[k] = "_"

\* CREATE TABLE IF NOT EXISTS
create_table(tables, name) ==
    [t \in DOMAIN tables \cup {sql_name(name)} |->
        IF t \in DOMAIN tables THEN tables[t] ELSE <<>>]

\* a Python int that fits SQLite's 64-bit INTEGER: |v| < 2^63 = 9223372036854775808
FitsInt64(v) ==
    \/ v.m = 0
    \/ AdjExp(v) < 18
    \/ AdjExp(v) = 18 /\ Lead9(v.m) <= 922337203

\* the value SQLite stores for a bound float: a NaN is stored as NULL
bind_real(x) == IF x.k = "nan" THEN NULL ELSE x

bind(r) == << r[1], r[2], bind_real(r[3]), bind_real(r[4]), bind_real(r[5]),
              bind_real(r[6]), r[7] >>

HasKey(rows, date, time) == \E j \in 1..Len(rows) : rows[j][1] = date /\ rows[j][2] = time

\* a faulty insert that ignores the UNIQUE constraint
insert_always(rows, r) == Append(rows, r)

\* INSERT OR IGNORE of one row under UNIQUE(date, time)
insert_or_ignore(rows, r) == IF HasKey(rows, r[1], r[2]) THEN rows ELSE Append(rows, r)

\* conn.executemany("INSERT OR IGNORE ...", batch): the rows are bound and
\* inserted one by one; an int beyond 64 bits raises OverflowError
RECURSIVE executemany(_, _)
executemany(rows, batch) ==
    IF batch = <<>> THEN [err |-> "none", rows |-> rows]
    ELSE IF ~FitsInt64(Head(batch)[7]) THEN [err |-> "OverflowError", rows |-> rows]
    ELSE executemany(insert_or_ignore(rows, bind(Head(batch))), Tail(batch))

-----------------------------------------------------------------------------
(* The steps of process_zip_file on one entry and one row.                 *)

TXT == << ".", "t", "x", "t" >>

ZIP == << ".", "z", "i", "p" >>

\* parts = os.path.basename(inner_name).split("_")
name_parts(inner_name) == split(basename(inner_name), "_")

\* f"{pair}_{timeframe}"
table_name_of(inner_name) ==
    LET parts == name_parts(inner_name)
    IN  parts[3] \o << "_" >> \o split(parts[4], ".")[1]

\* the rows the loop skips without a word: empty, all blank, or a header
is_skipped(row) ==
    \/ row = <<>>
    \/ \A j \in 1..Len(row) : strip(row[j]) = <<>>
    \/ \E j \in 1..Len(row) : contains(row[j], << "#" >>)
    \/ \E j \in 1..Len(row) : contains(row[j], << "T", "i", "m", "e" >>)

\* a faulty time_str that removes the ':' and appends no "00"
time_str_plain(row) == replace(strip(row[2]), ":")

\* time_str of a row
time_str_of(row) ==
    LET t == strip(row[2])
    IN  IF contains(t, << ":" >>) THEN replace(t, ":") \o << "0", "0" >> ELSE t

\* date_str of a row
date_str_of(row) == replace(strip(row[1]), ".")

\* the try block of a row of at least 7 fields: the record appended to the
\* batch, or the exception raised (the first one in statement order)
parse_row(row) ==
    LET date_str == date_str_of(row)
        time_str == time_str_of(row)
        open_val == float(row[3])
        high_val == float(row[4])
        low_val  == float(row[5])
        close_val == float(row[6])
        vol_f    == float(row[7])
        volume   == int(vol_f.v)
        fail(e)  == [res |-> e, rec |-> <<>>]
    IN  IF Len(date_str) # 8 THEN fail("ValueError")
        ELSE IF Len(time_str) # 6 THEN fail("ValueError")
        ELSE IF ~open_val.ok \/ ~high_val.ok \/ ~low_val.ok \/ ~close_val.ok
        THEN fail("ValueError")
        ELSE IF ~vol_f.ok THEN fail("ValueError")
        ELSE IF volume.err # "none" THEN fail(volume.err)
        ELSE [res |-> "ok",
              rec |-> << date_str, time_str, open_val.v, high_val.v, low_val.v,
                         close_val.v, volume.v >>]

-----------------------------------------------------------------------------
(* The inputs: the archives of data_zip/ and the text of their entries.    *)

\* field texts of the input lines: "2023.05.01"
F_DATE == << "2", "0", "2", "3", ".", "0", "5", ".", "0", "1" >>

\* " 20230501 "
F_DATE_PLAIN == << " ", "2", "0", "2", "3", "0", "5", "0", "1", " " >>

\* "2023.05.02"
F_DATE2 == << "2", "0", "2", "3", ".", "0", "5", ".", "0", "2" >>

\* "2023.05.03"
F_DATE3 == << "2", "0", "2", "3", ".", "0", "5", ".", "0", "3" >>

\* "2023.5.1"
F_DATE_SHORT == << "2", "0", "2", "3", ".", "5", ".", "1" >>

\* "2023-05-01"
F_DATE_DASH == << "2", "0", "2", "3", "-", "0", "5", "-", "0", "1" >>

\* "13:45"
F_TIME == << "1", "3", ":", "4", "5" >>

\* "134500"
F_TIME_PLAIN == << "1", "3", "4", "5", "0", "0" >>

\* "13:45:00"
F_TIME_SEC == << "1", "3", ":", "4", "5", ":", "0", "0" >>

\* "1345"
F_TIME_4 == << "1", "3", "4", "5" >>

\* "\t09:30 "
F_TIME2 == << "\t", "0", "9", ":", "3", "0", " " >>

\* "1.1"
F_1_1 == << "1", ".", "1" >>

\* "1.2"
F_1_2 == << "1", ".", "2" >>

\* "1.05"
F_1_05 == << "1", ".", "0", "5" >>

\* "1.15"
F_1_15 == << "1", ".", "1", "5" >>

\* "9.9"
F_9_9 == << "9", ".", "9" >>

\* " -.5"
F_NEG == << " ", "-", ".", "5" >>

\* "1e2"
F_EXP == << "1", "e", "2" >>

\* "abc"
F_ABC == << "a", "b", "c" >>

\* "nan"
F_NAN == << "n", "a", "n" >>

\* "inf"
F_INF == << "i", "n", "f" >>

\* ""
F_EMPTY == <<>>

\* "1000"
F_1000 == << "1", "0", "0", "0" >>

\* "7.9"
F_7_9 == << "7", ".", "9" >>

\* "1e19"
F_1E19 == << "1", "e", "1", "9" >>

\* "9.3e18"
F_BIG == << "9", ".", "3", "e", "1", "8" >>

\* "-2.7"
F_NEG_VOL == << "-", "2", ".", "7" >>

\* "#d"
F_HASH == << "#", "d" >>

\* "Time"
F_HEAD == << "T", "i", "m", "e" >>

\* " "
F_BLANK == << " " >>

\* entry names: "a_b_EU_H1.txt"
N_EU == << "a", "_", "b", "_", "E", "U", "_", "H", "1", ".", "t", "x", "t" >>

\* "d/x_y_EU_H1.v2.txt"
N_EU_V2 == << "d", "/", "x", "_", "y", "_", "E", "U", "_", "H", "1", ".", "v", "2", ".", "t", "x", "t" >>

\* "a_b_GB_M5.txt"
N_GB == << "a", "_", "b", "_", "G", "B", "_", "M", "5", ".", "t", "x", "t" >>

\* "EU_H1.txt"
N_SHORT == << "E", "U", "_", "H", "1", ".", "t", "x", "t" >>

\* "a_b_E-U_H1.txt"
N_DASH == << "a", "_", "b", "_", "E", "-", "U", "_", "H", "1", ".", "t", "x", "t" >>

\* "a_b_EU_H1.md"
N_MD == << "a", "_", "b", "_", "E", "U", "_", "H", "1", ".", "m", "d" >>

\* table names: "EU_H1"
T_EU == << "E", "U", "_", "H", "1" >>

\* a file of the folder that is no archive: "a.zip.txt"
STRAY == << "a", ".", "z", "i", "p", ".", "t", "x", "t" >>

\* the names of the archives, in the order sorted() gives them
ZipNames == << << "1", "0", ".", "z", "i", "p" >>,
              << "9", ".", "z", "i", "p" >>,
              << "a", ".", "z", "i", "p" >>,
              << "b", ".", "z", "i", "p" >> >>

\* a line of text from its fields
RECURSIVE join_fields(_)
join_fields(fields) ==
    IF fields = <<>> THEN <<>>
    ELSE IF Len(fields) = 1 THEN fields[1]
    ELSE fields[1] \o << "," >> \o join_fields(Tail(fields))

\* the lines of text of the entries
L_EX == join_fields(<< F_DATE, F_TIME, F_1_1, F_1_2, F_1_05, F_1_15, F_1000 >>)

L_DUP == join_fields(<< F_DATE_PLAIN, F_TIME_PLAIN, F_9_9, F_9_9, F_9_9, F_9_9, F_7_9 >>)

L_TWO == join_fields(<< F_DATE2, F_TIME2, F_1_2, F_EXP, F_NEG, F_1_15, F_NEG_VOL >>)

L_THREE == join_fields(<< F_DATE3, F_TIME, F_1_1, F_1_2, F_1_05, F_NAN, F_1000, F_ABC >>)

L_HASH == join_fields(<< F_HASH, F_TIME_4 >>)

L_HEAD == join_fields(<< F_ABC, F_HEAD, F_1_1 >>)

L_EMPTY == <<>>

L_BLANK == join_fields(<< F_BLANK, F_EMPTY >>)

L_SHORT == join_fields(<< F_DATE, F_TIME, F_1_1, F_1_2, F_1_05, F_1_15 >>)

L_BAD_OPEN == join_fields(<< F_DATE3, F_TIME, F_ABC, F_1_2, F_1_05, F_1_15, F_1000 >>)

L_INF == join_fields(<< F_DATE3, F_TIME, F_1_1, F_1_2, F_1_05, F_1_15, F_INF >>)

L_HUGE == join_fields(<< F_DATE, F_TIME, F_9_9, F_1_2, F_1_05, F_1_15, F_1E19 >>)

\* the entries of the archives: the name, whether reading the entry raises
\* zipfile.BadZipFile (a bad CRC or a bad local header), and its lines
Entry(name, lines) == [name |-> name, read |-> "ok", lines |-> lines]

E_A == Entry(N_EU, << L_HASH, L_EX, L_SHORT, L_DUP, L_TWO, L_BAD_OPEN, L_THREE >>)

E_B == Entry(N_EU_V2, << L_DUP, L_EMPTY, L_BLANK, L_HEAD, L_TWO >>)

E_C == Entry(N_GB, << L_EX >>)

E_SHORT_NAME == Entry(N_SHORT, << L_EX >>)

E_MD == Entry(N_MD, << L_EX >>)

E_CRC == [name |-> N_GB, read |-> "BadZipFile", lines |-> <<>>]

E_DASH == Entry(N_DASH, << L_EX >>)

E_INF == Entry(N_EU, << L_TWO, L_INF, L_THREE >>)

E_HUGE == Entry(N_EU, << L_EX, L_HUGE >>)

\* the archives: one that zipfile.ZipFile refuses, or the entries of namelist()
Zip(entries) == [bad |-> FALSE, entries |-> entries]

Z_BAD == [bad |-> TRUE, entries |-> <<>>]

Archives ==
    { Z_BAD,
      Zip(<<>>),
      Zip(<< E_MD, E_SHORT_NAME, E_A >>),
      Zip(<< E_B, E_C >>),
      Zip(<< E_B, E_CRC, E_A >>),
      Zip(<< E_C, E_DASH, E_A >>),
      Zip(<< E_INF >>),
      Zip(<< E_HUGE >>) }

\* the largest number of archives in the folder
MaxFiles == 2

\* the folder data_zip/: a function from the names of its files to the archives
FolderOf(zips, stray) ==
    [n \in {ZipNames[k] : k \in 1..Len(zips)} \cup stray |->
        IF n \in stray THEN Z_BAD
        ELSE zips[CHOOSE k \in 1..Len(zips) : ZipNames[k] = n]]

Folders ==
    { FolderOf(zips, stray) :
        zips \in UNION { [1..n -> Archives] : n \in 0..MaxFiles },
        stray \in {{}, {STRAY}} }

\* folders of one archive with one entry of one line, for the parsing of a row
DateFields == { F_DATE, F_DATE_PLAIN, F_DATE_SHORT, F_DATE_DASH }

TimeFields == { F_TIME, F_TIME_PLAIN, F_TIME_SEC, F_TIME_4, F_TIME2 }

PriceFields == { F_1_1, F_ABC, F_NAN }

VolumeFields == { F_1000, F_7_9, F_NAN, F_INF, F_BIG, F_NEG_VOL }

RowLines ==
    { join_fields(<< d, t, o, h, F_1_05, c, v >>) :
        d \in DateFields, t \in TimeFields, o \in PriceFields,
        h \in {F_1_2}, c \in {F_EXP, F_INF}, v \in VolumeFields }

RowFolders == { FolderOf(<< Zip(<< Entry(N_EU, << l >>) >>) >>, {}) : l \in RowLines }

\* what forex_data.db holds before the run: nothing, or the rows of an
\* earlier run over other data
StaleDb ==
    [exists |-> TRUE,
     tables |-> [t \in {T_EU} |->
                   << << << "2", "0", "2", "3", "0", "5", "0", "2" >>,
                         << "0", "9", "3", "0", "0", "0" >>,
                         Fin(5, 0), Fin(5, 0), Fin(5, 0), Fin(5, 0), Fin(5, 0) >> >>]]

-----------------------------------------------------------------------------
(* The program.                                                            *)

\* the threshold of the batch insert (10000 in the source, scaled down)
BatchSize == 2

VARIABLES
    folder,      \* data_zip/: file name -> archive
    db,          \* forex_data.db: the committed tables
    stdout,      \* what the run has printed
    pc,          \* "main", "zips", "entries", "rows", "done" or "crashed"
    zip_files,   \* main: the sorted names of the archives
    z,           \* main: the place of zip_file in zip_files
    e,           \* process_zip_file: the place of inner_name in z.namelist()
    table_name,  \* process_zip_file: the table of the entry
    content,     \* process_zip_file: the lines of the entry
    i,           \* process_zip_file: the rows of content already seen
    batch,       \* process_zip_file: the parsed records not yet inserted
    batch_src,   \* history: for each record of batch, the entry it was parsed from
    run,         \* history: 1 in the first run over the folder, 2 in the second
    first_db,    \* history: the database the first run left
    db_at_open   \* history: the database when the archive at hand was started

vars == << folder, db, stdout, pc, zip_files, z, e, table_name, content, i,
           batch, batch_src, run, first_db, db_at_open >>

locals == << zip_files, z, e, table_name, content, i, batch, batch_src >>

history == << run, first_db, db_at_open >>

\* os.listdir(ZIP_FOLDER): the names of the folder in any order
Listings(f) ==
    { l \in [1..Cardinality(DOMAIN f) -> DOMAIN f] :
        \A a, b \in 1..Cardinality(DOMAIN f) : a # b => l[a] # l[b] }

\* sorted(names)
RECURSIVE insort(_, _)
insort(names, x) ==
    IF names = <<>> THEN << x >>
    ELSE IF str_lt(x, Head(names)) THEN << x >> \o names
    ELSE << Head(names) >> \o insort(Tail(names), x)

RECURSIVE sorted(_)
sorted(names) ==
    IF names = <<>> THEN <<>> ELSE insort(sorted(Tail(names)), Head(names))

\* f.endswith(".zip")
is_zip(f) == endswith(f, ZIP)

\* inner_name.endswith(".txt")
is_txt(inner_name) == endswith(inner_name, TXT)

\* executemany and commit on the table of the entry; an exception leaves the
\* transaction open and the exit of the process rolls it back
flush(tables, name, records) ==
    LET r == executemany(tables[sql_name(name)], records)
    IN  [err    |-> r.err,
         tables |-> IF r.err = "none"
                    THEN [tables EXCEPT ![sql_name(name)] = r.rows]
                    ELSE tables]

\* len(batch) >= 10000
batch_full(records) == Len(records) >= BatchSize

\* batch = [] at the head of an entry
new_batch(records) == <<>>

Init ==
    /\ \/ folder \in Folders /\ db \in {NoDb, StaleDb}
       \/ folder \in RowFolders /\ db = NoDb
    /\ stdout = <<>>
    /\ pc = "main"
    /\ zip_files = <<>>
    /\ z = 0
    /\ e = 0
    /\ table_name = <<>>
    /\ content = <<>>
    /\ i = 0
    /\ batch = <<>>
    /\ batch_src = <<>>
    /\ run = 1
    /\ first_db = NoDb
    /\ db_at_open = db

\* the archive, the entry and the row at hand
zip_file == zip_files[z]

archive == folder[zip_file]

entry == archive.entries[e]

inner_name == entry.name

row == csv_row(content[i + 1])

\* main, up to the loop over the archives
main_start ==
    /\ pc = "main"
    /\ db' = init_db(db)
    /\ \E listing \in Listings(folder) :
           zip_files' = sorted(SelectSeq(listing, is_zip))
    /\ stdout' = init_db_out(db) \o << << "Processing zip files", Len(zip_files') >> >>
    /\ z' = 1
    /\ pc' = "zips"
    /\ UNCHANGED << folder, e, table_name, content, i, batch, batch_src, history >>

\* main: the loop is over, the connection is closed
main_done ==
    /\ pc = "zips"
    /\ z > Len(zip_files)
    /\ stdout' = Append(stdout, << "Done" >>)
    /\ pc' = "done"
    /\ UNCHANGED << folder, db, locals, history >>

\* process_zip_file: zipfile.ZipFile raises BadZipFile
zip_corrupted ==
    /\ pc = "zips"
    /\ z <= Len(zip_files)
    /\ archive.bad
    /\ stdout' = stdout \o << << "Processing", zip_file >>,
                              << "Corrupted zip file", zip_file >> >>
    /\ z' = z + 1
    /\ db_at_open' = db
    /\ UNCHANGED << folder, db, pc, zip_files, e, table_name, content, i, batch,
                    batch_src, run, first_db >>

\* process_zip_file: the archive opens
zip_opened ==
    /\ pc = "zips"
    /\ z <= Len(zip_files)
    /\ ~archive.bad
    /\ stdout' = Append(stdout, << "Processing", zip_file >>)
    /\ e' = 1
    /\ pc' = "entries"
    /\ db_at_open' = db
    /\ UNCHANGED << folder, db, zip_files, z, table_name, content, i, batch,
                    batch_src, run, first_db >>

\* process_zip_file: namelist() is exhausted
zip_end ==
    /\ pc = "entries"
    /\ e > Len(archive.entries)
    /\ z' = z + 1
    /\ pc' = "zips"
    /\ UNCHANGED << folder, db, stdout, zip_files, e, table_name, content, i, batch,
                    batch_src, history >>

\* an entry that does not end in .txt
entry_not_txt ==
    /\ pc = "entries"
    /\ e <= Len(archive.entries)
    /\ ~is_txt(inner_name)
    /\ e' = e + 1
    /\ UNCHANGED << folder, db, stdout, pc, zip_files, z, table_name, content, i,
                    batch, batch_src, history >>

\* an entry whose name has fewer than 4 parts
entry_bad_name ==
    /\ pc = "entries"
    /\ e <= Len(archive.entries)
    /\ is_txt(inner_name)
    /\ Len(name_parts(inner_name)) < 4
    /\ stdout' = Append(stdout, << "Skipping", inner_name >>)
    /\ e' = e + 1
    /\ UNCHANGED << folder, db, pc, zip_files, z, table_name, content, i, batch,
                    batch_src, history >>

\* a well named entry whose table name is no SQL identifier: CREATE TABLE raises
\* sqlite3.OperationalError, no handler catches it, the run ends with a traceback
entry_bad_table ==
    /\ pc = "entries"
    /\ e <= Len(archive.entries)
    /\ is_txt(inner_name)
    /\ Len(name_parts(inner_name)) >= 4
    /\ ~sql_identifier(sql_name(table_name_of(inner_name)))
    /\ table_name' = table_name_of(inner_name)
    /\ pc' = "crashed"
    /\ UNCHANGED << folder, db, stdout, zip_files, z, e, content, i, batch, batch_src,
                    history >>

\* a well named entry whose read raises BadZipFile: its table is created, the
\* handler of process_zip_file ends the archive
entry_corrupted ==
    /\ pc = "entries"
    /\ e <= Len(archive.entries)
    /\ is_txt(inner_name)
    /\ Len(name_parts(inner_name)) >= 4
    /\ sql_identifier(sql_name(table_name_of(inner_name)))
    /\ entry.read = "BadZipFile"
    /\ table_name' = table_name_of(inner_name)
    /\ db' = [db EXCEPT !.tables = create_table(@, table_name')]
    /\ stdout' = Append(stdout, << "Corrupted zip file", zip_file >>)
    /\ z' = z + 1
    /\ pc' = "zips"
    /\ UNCHANGED << folder, zip_files, e, content, i, batch, batch_src, history >>

\* a well named entry: its table is created, its lines are read
entry_read ==
    /\ pc = "entries"
    /\ e <= Len(archive.entries)
    /\ is_txt(inner_name)
    /\ Len(name_parts(inner_name)) >= 4
    /\ sql_identifier(sql_name(table_name_of(inner_name)))
    /\ entry.read = "ok"
    /\ table_name' = table_name_of(inner_name)
    /\ db' = [db EXCEPT !.tables = create_table(@, table_name')]
    /\ content' = entry.lines
    /\ batch' = new_batch(batch)
    /\ batch_src' = new_batch(batch_src)
    /\ i' = 0
    /\ pc' = "rows"
    /\ UNCHANGED << folder, stdout, zip_files, z, e, history >>

\* a row the loop passes over: empty, blank or a header
row_skip ==
    /\ pc = "rows"
    /\ i < Len(content)
    /\ is_skipped(row)
    /\ i' = i + 1
    /\ UNCHANGED << folder, db, stdout, pc, zip_files, z, e, table_name, content,
                    batch, batch_src, history >>

\* a row of fewer than 7 fields
row_short ==
    /\ pc = "rows"
    /\ i < Len(content)
    /\ ~is_skipped(row)
    /\ Len(row) < 7
    /\ stdout' = IF \E j \in 1..Len(row) : strip(row[j]) # <<>>
                 THEN Append(stdout, << "Row has columns", i + 1, inner_name, Len(row) >>)
                 ELSE stdout
    /\ i' = i + 1
    /\ UNCHANGED << folder, db, pc, zip_files, z, e, table_name, content, batch,
                    batch_src, history >>

\* a row whose parsing raises ValueError: the handler of the row prints it
row_error ==
    /\ pc = "rows"
    /\ i < Len(content)
    /\ ~is_skipped(row)
    /\ Len(row) >= 7
    /\ parse_row(row).res = "ValueError"
    /\ stdout' = Append(stdout, << "Error row", i + 1, inner_name, row >>)
    /\ i' = i + 1
    /\ UNCHANGED << folder, db, pc, zip_files, z, e, table_name, content, batch,
                    batch_src, history >>

\* a row whose parsing raises OverflowError: no handler catches it, the run
\* ends with a traceback
row_crash ==
    /\ pc = "rows"
    /\ i < Len(content)
    /\ ~is_skipped(row)
    /\ Len(row) >= 7
    /\ parse_row(row).res = "OverflowError"
    /\ pc' = "crashed"
    /\ UNCHANGED << folder, db, stdout, locals, history >>

\* a parsed row: its record joins the batch, which is not yet full
row_append ==
    /\ pc = "rows"
    /\ i < Len(content)
    /\ ~is_skipped(row)
    /\ Len(row) >= 7
    /\ parse_row(row).res = "ok"
    /\ batch' = Append(batch, parse_row(row).rec)
    /\ ~batch_full(batch')
    /\ batch_src' = Append(batch_src, << zip_file, e >>)
    /\ i' = i + 1
    /\ UNCHANGED << folder, db, stdout, pc, zip_files, z, e, table_name, content,
                    history >>

\* a parsed row that fills the batch: the batch is inserted, committed and
\* emptied
row_append_flush ==
    /\ pc = "rows"
    /\ i < Len(content)
    /\ ~is_skipped(row)
    /\ Len(row) >= 7
    /\ parse_row(row).res = "ok"
    /\ LET full == Append(batch, parse_row(row).rec)
           done == flush(db.tables, table_name, full)
       IN  /\ batch_full(full)
           /\ done.err = "none"
           /\ db' = [db EXCEPT !.tables = done.tables]
    /\ batch' = <<>>
    /\ batch_src' = <<>>
    /\ i' = i + 1
    /\ UNCHANGED << folder, stdout, pc, zip_files, z, e, table_name, content, history >>

\* a parsed row that fills the batch, and executemany raises OverflowError
row_flush_crash ==
    /\ pc = "rows"
    /\ i < Len(content)
    /\ ~is_skipped(row)
    /\ Len(row) >= 7
    /\ parse_row(row).res = "ok"
    /\ batch' = Append(batch, parse_row(row).rec)
    /\ batch_full(batch')
    /\ flush(db.tables, table_name, batch').err # "none"
    /\ batch_src' = Append(batch_src, << zip_file, e >>)
    /\ pc' = "crashed"
    /\ UNCHANGED << folder, db, stdout, zip_files, z, e, table_name, content, i,
                    history >>

\* the rows are exhausted and the batch is empty
rows_end ==
    /\ pc = "rows"
    /\ i = Len(content)
    /\ batch = <<>>
    /\ e' = e + 1
    /\ pc' = "entries"
    /\ UNCHANGED << folder, db, stdout, zip_files, z, table_name, content, i, batch,
                    batch_src, history >>

\* the rows are exhausted: the final batch is inserted and committed
rows_end_flush ==
    /\ pc = "rows"
    /\ i = Len(content)
    /\ batch # <<>>
    /\ flush(db.tables, table_name, batch).err = "none"
    /\ db' = [db EXCEPT !.tables = flush(db.tables, table_name, batch).tables]
    /\ e' = e + 1
    /\ pc' = "entries"
    /\ UNCHANGED << folder, stdout, zip_files, z, table_name, content, i, batch,
                    batch_src, history >>

\* the rows are exhausted, and executemany raises OverflowError
rows_end_crash ==
    /\ pc = "rows"
    /\ i = Len(content)
    /\ batch # <<>>
    /\ flush(db.tables, table_name, batch).err # "none"
    /\ pc' = "crashed"
    /\ UNCHANGED << folder, db, stdout, locals, history >>

\* the script is run again over the same folder, whatever forex_data.db has
\* become in between
rerun ==
    /\ pc \in {"done", "crashed"}
    /\ run = 1
    /\ run' = 2
    /\ first_db' = db
    /\ pc' = "main"
    /\ stdout' = <<>>
    /\ zip_files' = <<>>
    /\ z' = 0
    /\ e' = 0
    /\ table_name' = <<>>
    /\ content' = <<>>
    /\ i' = 0
    /\ batch' = <<>>
    /\ batch_src' = <<>>
    /\ db' \in {db, NoDb, StaleDb}
    /\ db_at_open' = db'
    /\ UNCHANGED folder

Next ==
    \/ main_start
    \/ main_done
    \/ zip_corrupted
    \/ zip_opened
    \/ zip_end
    \/ entry_not_txt
    \/ entry_bad_name
    \/ entry_bad_table
    \/ entry_corrupted
    \/ entry_read
    \/ row_skip
    \/ row_short
    \/ row_error
    \/ row_crash
    \/ row_append
    \/ row_append_flush
    \/ row_flush_crash
    \/ rows_end
    \/ rows_end_flush
    \/ rows_end_crash

Spec == Init /\ [][Next]_vars

NextTwice == Next \/ rerun

SpecTwice == Init /\ [][NextTwice]_vars

-----------------------------------------------------------------------------
(* What the properties speak of.                                           *)

Terminated == pc \in {"done", "crashed"}

SameKey(a, b) == a[1] = b[1] /\ a[2] = b[2]

\* the archives of the folder
ZipsOf(f) == { n \in DOMAIN f : endswith(n, ZIP) }

\* a .txt entry whose base name has at least 4 parts, and its table
WellNamed(en) == endswith(en.name, TXT) /\ Len(split(basename(en.name), "_")) >= 4

TableFor(en) ==
    LET parts == split(basename(en.name), "_")
    IN  parts[3] \o << "_" >> \o Head(split(parts[4], "."))

\* an archive that ends with the corrupted-archive diagnostic
Corrupted(a) ==
    \/ a.bad
    \/ \E k \in 1..Len(a.entries) : WellNamed(a.entries[k]) /\ a.entries[k].read # "ok"

\* a row that passes the skip rules: not blank, no header, at least 7 fields
PassesSkip(r) ==
    /\ r # <<>>
    /\ \E k \in 1..Len(r) : strip(r[k]) # <<>>
    /\ \A k \in 1..Len(r) : ~contains(r[k], << "#" >>) /\ ~contains(r[k], << "T", "i", "m", "e" >>)
    /\ Len(r) >= 7

\* the reference record of a row that passes the skip rules
RefDate(r) == SelectSeq(strip(r[1]), LAMBDA c : c # ".")

RefTime(r) ==
    LET t == strip(r[2])
    IN  IF \E k \in 1..Len(t) : t[k] = ":"
        THEN SelectSeq(t, LAMBDA c : c # ":") \o << "0", "0" >>
        ELSE t

RefDefined(r) ==
    /\ Len(RefDate(r)) = 8
    /\ Len(RefTime(r)) = 6
    /\ \A k \in 3..7 : float(r[k]).ok
    /\ float(r[7]).v.k = "fin"

RefRecord(r) ==
    << RefDate(r), RefTime(r), float(r[3]).v, float(r[4]).v, float(r[5]).v,
       float(r[6]).v, int(float(r[7]).v).v >>

\* the reference records of the first n lines, in order
RECURSIVE RefRecords(_, _)
RefRecords(lines, n) ==
    IF n = 0 THEN <<>>
    ELSE LET r == csv_row(lines[n])
         IN  RefRecords(lines, n - 1) \o
             (IF PassesSkip(r) /\ RefDefined(r) THEN << RefRecord(r) >> ELSE <<>>)

IsSuffix(s, t) == Len(s) <= Len(t) /\ s = SubSeq(t, Len(t) - Len(s) + 1, Len(t))

\* insert-or-ignore of the records, one by one, keyed on (date, time)
RECURSIVE RefInsertAll(_, _)
RefInsertAll(rows, records) ==
    IF records = <<>> THEN rows
    ELSE RefInsertAll(
             IF \E k \in 1..Len(rows) : SameKey(rows[k], Head(records))
             THEN rows ELSE Append(rows, bind(Head(records))),
             Tail(records))

\* every accepted line of every well named entry of the archive has its key in
\* the table of its entry
FullyProcessed(a) ==
    \A k \in 1..Len(a.entries) :
        WellNamed(a.entries[k]) =>
            \A l \in 1..Len(a.entries[k].lines) :
                LET r == csv_row(a.entries[k].lines[l])
                IN  (PassesSkip(r) /\ RefDefined(r)) =>
                        /\ TableFor(a.entries[k]) \in DOMAIN db.tables
                        /\ HasKey(db.tables[TableFor(a.entries[k])], RefDate(r), RefTime(r))

\* the step at hand inserts the batch: a parsed row fills it, or the rows of the
\* entry are exhausted and it is not empty
AtRow == pc = "rows" /\ i < Len(content)

RowParsed == AtRow /\ PassesSkip(row) /\ RefDefined(row)

Flushing ==
    \/ pc = "rows" /\ i = Len(content) /\ batch # <<>>
    \/ RowParsed /\ Len(batch) + 1 >= BatchSize

FlushedBatch == IF RowParsed THEN Append(batch, RefRecord(row)) ELSE batch

CorruptedLines == SelectSeq(stdout, LAMBDA line : line[1] = "Corrupted zip file")

-----------------------------------------------------------------------------
(* The properties.                                                         *)

\* C1: once the run has opened its database, every row of every table stays
\* in its table, unchanged, at every later step; and a step that inserts a
\* batch holding a record whose key is already in the table drops that record:
\* it raises no error and leaves the rows of the table as they were.
C1_FirstWinsNoError ==
    [][ pc # "main" =>
          /\ \A t \in DOMAIN db.tables :
                /\ t \in DOMAIN db'.tables
                /\ Len(db'.tables[t]) >= Len(db.tables[t])
                /\ SubSeq(db'.tables[t], 1, Len(db.tables[t])) = db.tables[t]
          /\ (Flushing /\ \E k \in 1..Len(FlushedBatch) :
                              HasKey(db.tables[table_name],
                                     FlushedBatch[k][1], FlushedBatch[k][2]))
                => pc' # "crashed" ]_vars

\* C2: in every reachable state no table holds two rows with the same
\* (date, time).
C2_UniqueKeys ==
    \A t \in DOMAIN db.tables :
        \A a, b \in 1..Len(db.tables[t]) :
            a # b => ~SameKey(db.tables[t][a], db.tables[t][b])

\* C2: the run over an archive whose entry holds the same key twice is over.
C2_Witness ==
    /\ pc = "done"
    /\ \E n \in DOMAIN folder : folder[n] = Zip(<< E_MD, E_SHORT_NAME, E_A >>)
    /\ T_EU \in DOMAIN db.tables
    /\ Len(db.tables[T_EU]) >= 3

\* C3: a row of fewer than 7 fields, or one that fails in the parsing steps 4-7
\* (date, time, a price that is no float, a volume that is no number or that
\* cannot be truncated to an integer), adds no record and changes no table,
\* prints one diagnostic, and the loop goes on with the next row.
C3_MalformedLineIsLocal ==
    [][ (AtRow /\ ~is_skipped(row) /\ (Len(row) < 7 \/ ~RefDefined(row))) =>
          /\ pc' = "rows"
          /\ i' = i + 1
          /\ batch' = batch
          /\ db' = db
          /\ Len(stdout') = Len(stdout) + 1 ]_vars

\* C4: when exactly one archive of the folder is corrupted, the run does not
\* abort, and once it is over it has printed exactly one corrupted-archive
\* diagnostic and has fully processed every other archive.
C4_CorruptedArchiveNonFatal ==
    Cardinality({ n \in ZipsOf(folder) : Corrupted(folder[n]) }) = 1 =>
        /\ pc # "crashed"
        /\ pc = "done" =>
              /\ Len(CorruptedLines) = 1
              /\ \A n \in ZipsOf(folder) :
                    ~Corrupted(folder[n]) => FullyProcessed(folder[n])

\* C5: a second run over the same folder ends with the tables and rows the
\* first run ended with, whatever the database held before either run.
C5_RerunSameRows == (run = 2 /\ Terminated) => db = first_db

\* C5: the second run over two archives that hold the same key is over.
C5_Witness ==
    /\ run = 2
    /\ pc = "done"
    /\ Len(zip_files) = 2
    /\ folder[zip_files[1]] = Zip(<< E_B, E_C >>)
    /\ folder[zip_files[2]] = Zip(<< E_MD, E_SHORT_NAME, E_A >>)
    /\ Len(db.tables[T_EU]) >= 3

\* C6: for every row that passes the skip rules the try block yields a record
\* exactly when the reference defines one, and then that record: the date
\* trimmed and without '.', 8 characters long; the time trimmed, without ':'
\* and with "00" appended when it held a ':', 6 characters long; the four prices
\* as floats; the volume as a number truncated to an integer.  This holds of
\* the row the loop has just handled, and the batch holds the latest reference
\* records of the rows handled so far, in order.
C6_ParseMatchesReference ==
    (pc = "rows" /\ i >= 1) =>
        LET r == csv_row(content[i])
        IN  /\ PassesSkip(r) =>
                  /\ (parse_row(r).res = "ok") = RefDefined(r)
                  /\ RefDefined(r) => parse_row(r).rec = RefRecord(r)
            /\ IsSuffix(batch, RefRecords(content, i))
            /\ content[i] = L_EX =>
                  parse_row(r).rec =
                      << << "2", "0", "2", "3", "0", "5", "0", "1" >>,
                         << "1", "3", "4", "5", "0", "0" >>,
                         Fin(11, 0 - 1), Fin(12, 0 - 1), Fin(105, 0 - 2),
                         Fin(115, 0 - 2), Fin(1, 3) >>
            /\ content[i] = L_DUP => parse_row(r).rec[2] = F_TIME_PLAIN

\* C6: the line of the specification's example has been parsed.
C6_Witness ==
    /\ pc = "rows"
    /\ i = 1
    /\ content = << L_EX >>
    /\ Len(batch) = 1
    /\ batch[1][2] = << "1", "3", "4", "5", "0", "0" >>

\* C7: at the head of the row loop the batch holds at most BatchSize records;
\* a step inserts, commits and empties the batch exactly when a row fills it,
\* and inserts and commits it when the rows end with records in it; the batch
\* is empty when the rows of an entry begin; and the records inserted were all
\* parsed from the entry whose table receives them.
C7_BatchFlushPolicy ==
    [][ /\ pc = "rows" => Len(batch) <= BatchSize
        /\ Flushing =>
              /\ pc' # "crashed"
              /\ db' = [db EXCEPT !.tables[table_name] =
                            RefInsertAll(db.tables[table_name], FlushedBatch)]
              /\ RowParsed => batch' = <<>>
              /\ table_name = TableFor(entry)
              /\ \A k \in 1..Len(batch_src) : batch_src[k] = << zip_file, e >>
        /\ (pc = "rows" /\ ~Flushing) => db' = db
        /\ (pc = "entries" /\ pc' = "rows") => batch' = <<>> ]_vars

\* C8: an entry that does not end in .txt changes nothing and prints nothing;
\* a .txt entry of fewer than 4 name parts prints one diagnostic and changes no
\* table, and the loop goes on with the next entry of the archive; for any other
\* entry the table is the third part, "_", and the fourth part up to its first
\* '.', it exists before the first row is parsed, and while the rows of the
\* entry are handled no other table changes.
C8_EntryNamingAndTable ==
    [][ /\ (pc = "entries" /\ e <= Len(archive.entries) /\ ~endswith(inner_name, TXT)) =>
              /\ db' = db
              /\ stdout' = stdout
              /\ pc' = "entries"
              /\ e' = e + 1
        /\ (pc = "entries" /\ e <= Len(archive.entries) /\ endswith(inner_name, TXT)
               /\ ~WellNamed(entry)) =>
              /\ db' = db
              /\ stdout' = Append(stdout, << "Skipping", inner_name >>)
              /\ pc' = "entries"
              /\ e' = e + 1
        /\ (pc = "entries" /\ e <= Len(archive.entries) /\ WellNamed(entry)) =>
              /\ table_name' = TableFor(entry)
              /\ DOMAIN db'.tables = DOMAIN db.tables \cup {TableFor(entry)}
              /\ \A t \in DOMAIN db.tables : db'.tables[t] = db.tables[t]
              /\ pc' = "rows" => i' = 0
        /\ pc = "rows" =>
              /\ table_name = TableFor(entry)
              /\ table_name \in DOMAIN db.tables
              /\ DOMAIN db'.tables = DOMAIN db.tables
              /\ \A t \in DOMAIN db.tables \ {table_name} : db'.tables[t] = db.tables[t]
        /\ TableFor(Entry(N_EU_V2, <<>>)) = T_EU ]_vars

\* C8: the rows of the third entry of an archive are handled after its second
\* entry was skipped for its name.
C8_Witness ==
    /\ pc = "rows"
    /\ e = 3
    /\ archive = Zip(<< E_MD, E_SHORT_NAME, E_A >>)
    /\ table_name = T_EU
    /\ \E k \in 1..Len(stdout) : stdout[k] = << "Skipping", N_SHORT >>
    /\ i = Len(content)

\* C9: when an archive has ended with the corrupted-archive diagnostic, the
\* database is as it was when the archive was started.
C9_CorruptedArchiveLeavesNoTrace ==
    (pc = "zips" /\ stdout # <<>> /\ stdout[Len(stdout)][1] = "Corrupted zip file")
        => db = db_at_open

\* C10: when the run is over, every accepted line of every well named entry of
\* every readable archive has its key in the table of its entry.
C10_NoAcceptedRecordLost ==
    Terminated =>
        \A n \in ZipsOf(folder) :
            ~Corrupted(folder[n]) => FullyProcessed(folder[n])

====
